---- MODULE Spec2Model ----
(***************************************************************************)
(* Model of the dudect leakage-detection engine of lab0-c                  *)
(* (src/dudect/dudect.c): the online Welch t-test accumulators, the        *)
(* percentile calibration, update_statistics, max_test, report and         *)
(* dudect_main.                                                            *)
(*                                                                         *)
(* Numbers.  A C double is modelled exactly as a pair <<a, b>>: b > 0 is   *)
(* the rational a/b in lowest terms, <<1,0>> is +inf, <<-1,0>> is -inf and *)
(* <<0,0>> is NaN, with the IEEE-754 rules for division by zero and for    *)
(* comparisons with NaN.  Rounding is not modelled.  Because sqrt is       *)
(* irrational, t_compute returns sgn(t)*t^2 instead of t; x |-> sgn(x)*x^2 *)
(* is strictly monotone and keeps 0, +-inf and NaN, so every comparison    *)
(* the code makes on |t| is made here on t^2 against the squared           *)
(* threshold.                                                              *)
(*                                                                         *)
(* Sizes.  The sizes of dudect.h / measure.h (10000 measurements, 100      *)
(* percentiles, batches of N_MEASURES, 10 discarded warm-up deltas) are    *)
(* scaled down so that the gates are crossed within a few batches; the     *)
(* code is otherwise translated as written.                                *)
(*                                                                         *)
(* Parts.  Each part has its own variable and its own specification, all   *)
(* starting from Init and leaving the other parts unchanged:               *)
(*   Spec, SpecT, SpecP  dudect_main as one step, on three sets of batches *)
(*   SpecM               dudect_main step by step through measure          *)
(*   SpecH               the allocations of dudect_init and dudect_free    *)
(*   SpecW               t_push on one accumulator                         *)
(*   SpecQ, SpecA, SpecS the queue of src/queue.c with its next / prev     *)
(*                       links: inserts and removes, q_ascend / q_descend, *)
(*                       q_sort                                            *)
(*   SpecD               the driver is_<op>_const of src/dudect/measure.c  *)
(*   SpecL               the inner loop of the driver on the engine, with  *)
(*                       fairness                                          *)
(***************************************************************************)
EXTENDS Integers, Sequences, FiniteSets, TLC

\* ---------------------------------------------------------------- sizes
\* dudect.h: #define DUDECT_ENOUGH_MEASUREMENTS (10000), scaled.
DUDECT_ENOUGH_MEASUREMENTS == 2
\* the literal 10000 of update_statistics (same value as the gate), scaled.
SECOND_ORDER_MIN == 2
\* dudect.h: #define DUDECT_NUMBER_PERCENTILES (100), scaled to a divisor of
\* 10 so that 10 * (i + 1) / DUDECT_NUMBER_PERCENTILES is an integer.
DUDECT_NUMBER_PERCENTILES == 10
\* dudect.h: #define DUDECT_TESTS (1 + DUDECT_NUMBER_PERCENTILES + 1)
DUDECT_TESTS == 1 + DUDECT_NUMBER_PERCENTILES + 1
\* measure.h: N_MEASURES, the config's number_measurements, scaled.
number_measurements == 3
\* first index update_statistics reads (10 in the code), scaled.
DISCARD_FIRST == 1
\* #define t_threshold_bananas 500, t_threshold_moderate 10
t_threshold_bananas == 500
t_threshold_moderate == 10
\* measure.c: #define TEST_TRIES 10
TEST_TRIES == 10
\* width of C int in cmp's cast, scaled (32 in the build)
INT_BITS == 8

\* number of dudect_main calls explored on one context
MaxCalls == 4
MaxCallsT == 7
MaxCallsP == 2
MaxCallsM == 2
\* number of t_push calls made on an accumulator on its own
MaxPushes == 4
\* number of elements a queue holds at most
MaxNodes == 3
\* number of dudect_main calls the driver makes in one try
MaxMains == 3
\* calls of dudect_main counted in the inner loop of the driver
MaxLoop == 4
\* number of dudect_free calls made on a context
MaxFrees == 2
\* number of allocations of one dudect_init call that fail
MaxFailures == 2
\* a context is explored until its second-order accumulator holds this many
\* samples: the exact fractions of its squared, centered values outgrow
\* TLC's integers after a few pushes
MaxSecondOrder == 1

\* differences of consecutive cpucycles() readings in a batch: a negative
\* one (the counter wrapped), zero and a positive one
Deltas == {-1, 0, 2}
\* the same for the runs that cross the gate with both classes filled:
\* values whose t statistics fall on both sides of t_threshold_moderate
DeltasT == {0, 3, 4}
\* the differences measured for the discarded slots in those runs
WarmDeltasT == {4}

\* the same for the calibration runs: 200 is further from the other values
\* than the largest int (2^(INT_BITS - 1) - 1)
DeltasP == {-1, 0, 2, 200}

\* the values pushed into an accumulator on its own
PushValues == {0, 1, 3}

\* the strings put into a queue, numbered in strcmp order
Strings == {1, 2, 3}

Classes == {0, 1}
Slots == 0 .. (number_measurements - 1)
Tests == 0 .. (DUDECT_TESTS - 1)
Crops == 0 .. (DUDECT_NUMBER_PERCENTILES - 1)

DUDECT_LEAKAGE_FOUND == "DUDECT_LEAKAGE_FOUND"
DUDECT_NO_LEAKAGE_EVIDENCE_YET == "DUDECT_NO_LEAKAGE_EVIDENCE_YET"
DUDECT_NOT_ENOUGHT_MEASUREMENTS == "DUDECT_NOT_ENOUGHT_MEASUREMENTS"

\* ---------------------------------------------------------------- doubles
Abs(a) == IF a < 0 THEN -a ELSE a
Sign(a) == IF a < 0 THEN -1 ELSE IF a > 0 THEN 1 ELSE 0

RECURSIVE GCD(_, _)
GCD(a, b) == IF b = 0 THEN a ELSE GCD(b, a % b)

NaN == <<0, 0>>
PInf == <<1, 0>>
NInf == <<-1, 0>>
D(i) == <<i, 1>>

DNorm(a, b) ==
    IF b = 0 THEN <<Sign(a), 0>>
    ELSE LET g == GCD(Abs(a), Abs(b))
         IN  <<(Sign(b) * a) \div g, Abs(b) \div g>>

IsFinite(x) == x[2] # 0

DNeg(x) == <<-x[1], x[2]>>
DAbs(x) == <<Abs(x[1]), x[2]>>

\* the finite cases divide out common factors before they multiply, which
\* keeps the intermediate integers small; the values are the same
DAdd(x, y) ==
    IF IsFinite(x) /\ IsFinite(y)
      THEN LET g == GCD(x[2], y[2])
           IN  DNorm(x[1] * (y[2] \div g) + y[1] * (x[2] \div g),
                     (x[2] \div g) * y[2])
    ELSE IF x = NaN \/ y = NaN THEN NaN
    ELSE IF ~IsFinite(x) /\ ~IsFinite(y) THEN (IF x = y THEN x ELSE NaN)
    ELSE IF ~IsFinite(x) THEN x ELSE y

DSub(x, y) == DAdd(x, DNeg(y))

\* covers inf * 0 = NaN and NaN * y = NaN through DNorm(_, 0)
DMul(x, y) ==
    IF IsFinite(x) /\ IsFinite(y)
      THEN LET g1 == GCD(Abs(x[1]), y[2])
               g2 == GCD(Abs(y[1]), x[2])
           IN  <<(x[1] \div g1) * (y[1] \div g2), (x[2] \div g2) * (y[2] \div g1)>>
    ELSE DNorm(x[1] * y[1], x[2] * y[2])

DDiv(x, y) ==
    IF y = D(0) THEN DMul(x, PInf)
    ELSE DMul(x, <<y[2] * Sign(y[1]), Abs(y[1])>>)

\* x < y on doubles: false when either is NaN
DLess(x, y) ==
    IF x = NaN \/ y = NaN THEN FALSE
    ELSE IF IsFinite(x) /\ IsFinite(y)
      THEN LET g == GCD(x[2], y[2])
           IN  x[1] * (y[2] \div g) < y[1] * (x[2] \div g)
    ELSE x # y /\ (x = NInf \/ y = PInf)

\* sqrt(x) / the later division, on squares: the square of num / sqrt(s),
\* with the sign of num; sqrt of NaN or of a negative number is NaN
DivBySqrt(num, s) ==
    IF s = NaN \/ DLess(s, D(0)) THEN NaN
    ELSE DDiv(DMul(num, DAbs(num)), s)

Square(i) == i * i

\* ---------------------------------------------------------------- t-test
\* ttest_ctx_t after t_init: mean, m2 and n are 0.0 for both classes
t_init == [mean |-> [c \in Classes |-> D(0)],
           m2   |-> [c \in Classes |-> D(0)],
           n    |-> [c \in Classes |-> 0]]

\* m2 updated with the old mean in both factors
t_push_old_mean(ctx, x, class) ==
    LET n1    == ctx.n[class] + 1
        delta == DSub(x, ctx.mean[class])
        mean1 == DAdd(ctx.mean[class], DDiv(delta, D(n1)))
        m21   == DAdd(ctx.m2[class], DMul(delta, delta))
    IN  [mean |-> [ctx.mean EXCEPT ![class] = mean1],
         m2   |-> [ctx.m2 EXCEPT ![class] = m21],
         n    |-> [ctx.n EXCEPT ![class] = n1]]

\* the count left as it was
t_push_uncounted(ctx, x, class) ==
    LET n1    == ctx.n[class] + 1
        delta == DSub(x, ctx.mean[class])
        mean1 == DAdd(ctx.mean[class], DDiv(delta, D(n1)))
        m21   == DAdd(ctx.m2[class], DMul(delta, DSub(x, mean1)))
    IN  [mean |-> [ctx.mean EXCEPT ![class] = mean1],
         m2   |-> [ctx.m2 EXCEPT ![class] = m21],
         n    |-> ctx.n]

t_push(ctx, x, class) ==
    LET n1    == ctx.n[class] + 1
        delta == DSub(x, ctx.mean[class])
        mean1 == DAdd(ctx.mean[class], DDiv(delta, D(n1)))
        m21   == DAdd(ctx.m2[class], DMul(delta, DSub(x, mean1)))
    IN  [mean |-> [ctx.mean EXCEPT ![class] = mean1],
         m2   |-> [ctx.m2 EXCEPT ![class] = m21],
         n    |-> [ctx.n EXCEPT ![class] = n1]]

\* returns sgn(t) * t^2 for the t_value of the code
t_compute(ctx) ==
    LET var0 == DDiv(ctx.m2[0], D(ctx.n[0] - 1))
        var1 == DDiv(ctx.m2[1], D(ctx.n[1] - 1))
        num == DSub(ctx.mean[0], ctx.mean[1])
        den2 == DAdd(DDiv(var0, D(ctx.n[0])), DDiv(var1, D(ctx.n[1])))
    IN  DivBySqrt(num, den2)

\* fabs(t_compute(ctx)), squared
fabs_t(ctx) == DAbs(t_compute(ctx))

\* ---------------------------------------------------------------- percentiles
Pow2(k) == 2 ^ k

\* (int) x for an int64_t x
ToInt(x) == ((x + Pow2(INT_BITS - 1)) % Pow2(INT_BITS)) - Pow2(INT_BITS - 1)

cmp(a, b) == ToInt(a - b)

\* qsort(a, size, ..., cmp) as an insertion sort driven by cmp
RECURSIVE InsertSorted(_, _)
InsertSorted(x, s) ==
    IF s = <<>> THEN <<x>>
    ELSE IF cmp(x, Head(s)) <= 0 THEN <<x>> \o s
    ELSE <<Head(s)>> \o InsertSorted(x, Tail(s))

RECURSIVE qsort(_)
qsort(s) == IF s = <<>> THEN <<>> ELSE InsertSorted(Head(s), qsort(Tail(s)))

ToSeq(a) == [k \in 1 .. number_measurements |-> a[k - 1]]
ToArray(s) == [i \in Slots |-> s[i + 1]]

\* which = 1 - pow(0.5, 10 * (i + 1) / DUDECT_NUMBER_PERCENTILES), as the
\* fraction <<2^k - 1, 2^k>>
which(i) ==
    LET k == (10 * (i + 1)) \div DUDECT_NUMBER_PERCENTILES
    IN  <<Pow2(k) - 1, Pow2(k)>>

\* (size_t) ((double) size * (double) which)
array_position(w, size) == (size * w[1]) \div w[2]

\* percentile sorts a in place and returns a[array_position]
percentile(a, w, size) ==
    LET sorted == ToArray(qsort(ToSeq(a)))
    IN  [a |-> sorted, value |-> sorted[array_position(w, size)]]

RECURSIVE prepare_loop(_, _, _)
prepare_loop(a, pct, i) ==
    IF i >= DUDECT_NUMBER_PERCENTILES THEN [exec_times |-> a, percentiles |-> pct]
    ELSE LET r == percentile(a, which(i), number_measurements)
         IN  prepare_loop(r.a, [pct EXCEPT ![i] = r.value], i + 1)

prepare_percentiles(a, pct) == prepare_loop(a, pct, 0)

\* ---------------------------------------------------------------- state
VARIABLES
    percentiles,  \* ctx->percentiles[0 .. DUDECT_NUMBER_PERCENTILES - 1]
    ttest_ctxs,   \* ctx->ttest_ctxs[0 .. DUDECT_TESTS - 1]
    ticks,        \* ctx->ticks[0 .. number_measurements - 1]
    exec_times,   \* ctx->exec_times[0 .. number_measurements - 1]
    classes,      \* ctx->classes[0 .. number_measurements - 1]
    ret,          \* value returned by the last dudect_main call
    calls,        \* number of dudect_main calls made on the context
    trace,        \* what the last dudect_main call did (observation only)
    meas,         \* position and locals of a dudect_main call run step by step
    heap,         \* the allocations of a context and what was done to them
    ttest,        \* one ttest_ctx_t and the values pushed into it
    queue,        \* a queue of queue.c: its list nodes and their links
    driver        \* position and locals of is_<op>_const

vars == <<percentiles, ttest_ctxs, ticks, exec_times, classes, ret, calls, trace,
          meas, heap, ttest, queue, driver>>

\* trace of a call: whether prepare_percentiles / update_statistics / report
\* ran, the deltas measure() produced, the t_push calls <<test, x, class>> in
\* order, the tests t_compute was called on in order, the index max_test
\* returned and max_t (squared) of report.
NoTrace == [calibrated |-> FALSE, updated |-> FALSE, reported |-> FALSE,
            batch |-> <<>>, pushes |-> <<>>, computed |-> <<>>,
            selected |-> -1, max_t |-> NaN]

\* ---------------------------------------------------------------- measure
\* ticks[i] = cpucycles() before the i-th compute; the counter starts the
\* batch at 0 and advances by d[i] during compute i
RECURSIVE TickAt(_, _)
TickAt(d, i) == IF i = 0 THEN 0 ELSE TickAt(d, i - 1) + d[i - 1]

\* exec_times[i] = ticks[i + 1] - ticks[i] for i < number_measurements - 1;
\* the last slot of exec_times is not written
measure(old_exec_times, new_ticks) ==
    [i \in Slots |-> IF i < number_measurements - 1
                       THEN new_ticks[i + 1] - new_ticks[i]
                       ELSE old_exec_times[i]]

\* ---------------------------------------------------------------- update_statistics
\* s.ctxs are the accumulators, s.pushes the t_push calls made so far in
\* this call, as <<test, x, class>>: a t_push on ctx->ttest_ctxs[k]
push(s, k, x, class) ==
    [ctxs |-> [s.ctxs EXCEPT ![k] = t_push(@, x, class)],
     pushes |-> Append(s.pushes, <<k, x, class>>)]

\* the comparison made non-strict
crops_or_equal(difference, threshold) == difference <= threshold

\* whether the cropped test with this threshold takes the difference
crops(difference, threshold) == difference < threshold

\* the loop over crop_index
RECURSIVE crop_loop(_, _, _, _, _)
crop_loop(s, pct, difference, class, crop_index) ==
    IF crop_index >= DUDECT_NUMBER_PERCENTILES THEN s
    ELSE IF crops(difference, pct[crop_index])
      THEN crop_loop(push(s, crop_index + 1, D(difference), class),
                     pct, difference, class, crop_index + 1)
    ELSE crop_loop(s, pct, difference, class, crop_index + 1)

\* whether the second-order test takes the difference
second_order(raw) == raw.n[0] > SECOND_ORDER_MIN

\* the push to the raw test left out
update_one_no_raw(s, pct, difference, class) ==
    LET s2 == crop_loop(s, pct, difference, class, 0)
        centered == DSub(D(difference), s2.ctxs[0].mean[class])
    IN  IF second_order(s2.ctxs[0])
          THEN push(s2, 1 + DUDECT_NUMBER_PERCENTILES, DMul(centered, centered), class)
          ELSE s2

\* the body of the loop over the batch for one accepted difference
update_one(s, pct, difference, class) ==
    LET s1 == push(s, 0, D(difference), class)
        s2 == crop_loop(s1, pct, difference, class, 0)
        centered == DSub(D(difference), s2.ctxs[0].mean[class])
    IN  IF second_order(s2.ctxs[0])
          THEN push(s2, 1 + DUDECT_NUMBER_PERCENTILES, DMul(centered, centered), class)
          ELSE s2

\* the check left out
discarded_never(difference) == FALSE

\* every measurement thrown away
discarded_always(difference) == TRUE

\* the cpu cycle counter overflowed: the measurement is thrown away
discarded(difference) == difference < 0

\* the label read from the next slot
RECURSIVE update_loop_next_label(_, _, _, _, _)
update_loop_next_label(s, pct, times, cls, i) ==
    IF i >= number_measurements - 1 THEN s
    ELSE IF discarded(times[i])
      THEN update_loop_next_label(s, pct, times, cls, i + 1)
    ELSE update_loop_next_label(update_one(s, pct, times[i], cls[i + 1]),
                                pct, times, cls, i + 1)

\* the loop over the batch
RECURSIVE update_loop(_, _, _, _, _)
update_loop(s, pct, times, cls, i) ==
    IF i >= number_measurements - 1 THEN s
    ELSE IF discarded(times[i]) THEN update_loop(s, pct, times, cls, i + 1)
    ELSE update_loop(update_one(s, pct, times[i], cls[i]), pct, times, cls, i + 1)

update_statistics(ctxs, pct, times, cls) ==
    update_loop([ctxs |-> ctxs, pushes |-> <<>>], pct, times, cls, DISCARD_FIRST)

\* ---------------------------------------------------------------- report
\* s.ret and s.max are the locals of max_test, s.computed the tests
\* t_compute was called on
\* the gate left out
meets_gate_always(ctx) == TRUE

\* the gate of max_test
meets_gate(ctx) == ctx.n[0] > DUDECT_ENOUGH_MEASUREMENTS

RECURSIVE max_loop(_, _, _)
max_loop(ctxs, s, i) ==
    IF i >= DUDECT_TESTS THEN s
    ELSE IF meets_gate(ctxs[i])
      THEN LET x == fabs_t(ctxs[i])
               c == Append(s.computed, i)
           IN  IF DLess(s.max, x)
                 THEN max_loop(ctxs, [ret |-> i, max |-> x, computed |-> c], i + 1)
                 ELSE max_loop(ctxs, [s EXCEPT !.computed = c], i + 1)
    ELSE max_loop(ctxs, s, i + 1)

max_test(ctxs) == max_loop(ctxs, [ret |-> 0, max |-> D(0), computed |-> <<>>], 0)

\* the thresholds compared with >= instead of >
verdict_at_least(max_t) ==
    IF ~DLess(max_t, D(Square(t_threshold_moderate))) /\ max_t # NaN
      THEN DUDECT_LEAKAGE_FOUND
      ELSE DUDECT_NO_LEAKAGE_EVIDENCE_YET

\* the verdict for max_t (squared), after the gate
verdict(max_t) ==
    IF DLess(D(Square(t_threshold_bananas)), max_t) THEN DUDECT_LEAKAGE_FOUND
    ELSE IF DLess(D(Square(t_threshold_moderate)), max_t) THEN DUDECT_LEAKAGE_FOUND
    ELSE DUDECT_NO_LEAKAGE_EVIDENCE_YET

\* the comparison reversed
not_enough_reversed(number_traces_max_t) ==
    number_traces_max_t > DUDECT_ENOUGH_MEASUREMENTS

\* the gate of report
not_enough(number_traces_max_t) == number_traces_max_t < DUDECT_ENOUGH_MEASUREMENTS

report(ctxs) ==
    LET m == max_test(ctxs)
        t == ctxs[m.ret]
        max_t == fabs_t(t)
        number_traces_max_t == t.n[0] + t.n[1]
    IN  [ret |-> IF not_enough(number_traces_max_t)
                   THEN DUDECT_NOT_ENOUGHT_MEASUREMENTS
                   ELSE verdict(max_t),
         selected |-> m.ret,
         max_t |-> max_t,
         computed |-> Append(m.computed, m.ret)]

\* ---------------------------------------------------------------- dudect_main
\* the test inverted
first_time_inverted(pct) == pct[DUDECT_NUMBER_PERCENTILES - 1] # 0

\* bool first_time of dudect_main
first_time(pct) == pct[DUDECT_NUMBER_PERCENTILES - 1] = 0

\* The context and return value after dudect_main on the context ctx.
\* prepare() writes the labels cls; measure() reads the counter, which
\* advances by d[i] during compute i.
dudect_main(ctx, cls, d) ==
    LET new_ticks == [i \in Slots |-> TickAt(d, i)]
        times == measure(ctx.exec_times, new_ticks)
        batch == [i \in 1 .. number_measurements - 1 |-> times[i - 1]]
    IN  IF first_time(ctx.percentiles)
          THEN LET p == prepare_percentiles(times, ctx.percentiles)
               IN  [percentiles |-> p.percentiles,
                    ttest_ctxs  |-> ctx.ttest_ctxs,
                    ticks       |-> new_ticks,
                    exec_times  |-> p.exec_times,
                    classes     |-> cls,
                    ret         |-> DUDECT_NOT_ENOUGHT_MEASUREMENTS,
                    trace       |-> [NoTrace EXCEPT !.calibrated = TRUE,
                                                    !.batch = batch]]
          ELSE LET u == update_statistics(ctx.ttest_ctxs, ctx.percentiles, times, cls)
                   r == report(u.ctxs)
               IN  [percentiles |-> ctx.percentiles,
                    ttest_ctxs  |-> u.ctxs,
                    ticks       |-> new_ticks,
                    exec_times  |-> times,
                    classes     |-> cls,
                    ret         |-> r.ret,
                    trace       |-> [calibrated |-> FALSE, updated |-> TRUE,
                                     reported |-> TRUE, batch |-> batch,
                                     pushes |-> u.pushes, computed |-> r.computed,
                                     selected |-> r.selected, max_t |-> r.max_t]]

\* the dudect_ctx_t the variables hold
Ctx == [percentiles |-> percentiles, ttest_ctxs |-> ttest_ctxs,
        exec_times |-> exec_times]

\* samples held by the second-order accumulator
SecondOrderSamples ==
    ttest_ctxs[1 + DUDECT_NUMBER_PERCENTILES].n[0]
      + ttest_ctxs[1 + DUDECT_NUMBER_PERCENTILES].n[1]

\* One call of dudect_main on the context.  dudect_main is an exported entry
\* point and keeps no record of a verdict: a caller may call it again after
\* one (the loop of measure.c stops at the first verdict).
DudectMain(cls, d, max_calls) ==
    /\ calls < max_calls
    /\ SecondOrderSamples < MaxSecondOrder
    /\ \E r \in {dudect_main(Ctx, cls, d)} :
        /\ percentiles' = r.percentiles
        /\ ttest_ctxs' = r.ttest_ctxs
        /\ ticks' = r.ticks
        /\ exec_times' = r.exec_times
        /\ classes' = r.classes
        /\ ret' = r.ret
        /\ trace' = r.trace
    /\ calls' = calls + 1
    /\ UNCHANGED <<meas, heap, ttest, queue, driver>>

\* no dudect_main call in progress: pc is the position in the call, i the
\* loop index of measure, clock the cycle counter, cls the labels prepare
\* wrote, d the advance of the counter during each compute, ticks the
\* readings, events the calls made to the callbacks and to cpucycles as
\* <<name, slot>> in order
MeasIdle ==
    [pc |-> "idle", i |-> 0, clock |-> 0,
     cls |-> [i \in Slots |-> 0],
     d |-> [i \in 0 .. number_measurements - 2 |-> 0],
     ticks |-> [i \in Slots |-> 0],
     events |-> <<>>]

\* The allocations a dudect_ctx_t points to, as <<field, index>>: the
\* buffers, each accumulator, and the elements queued in each input slot.
Buffers == {"config", "ticks", "exec_times", "classes", "input_data", "percentiles"}
Allocations == {<<b, 0>> : b \in Buffers} \cup {<<"ttest_ctxs", i>> : i \in Tests}
Elements == {<<"element", i>> : i \in Slots}

\* dudect_ctx_t ctx; before dudect_init: every pointer is unset.  ptr[r] is
\* "unset", "null" (the allocation failed), "live" or "freed" (dangling);
\* frees[r] counts the free() calls made on the allocation; faults are the
\* invalid accesses made so far; state is "none" before dudect_init,
\* "usable" once it returned 0, "ended" when the process was terminated
\* (failed assert, or a fault that stops it); freed counts the dudect_free
\* calls.
HeapNone ==
    [ptr |-> [r \in Allocations \cup Elements |-> "unset"],
     frees |-> [r \in Allocations \cup Elements |-> 0],
     faults |-> {},
     state |-> "none",
     freed |-> 0]
\* an accumulator after t_init, and the <<value, class>> pushed into it
AccInit == [ctx |-> t_init, pushed |-> <<>>]
\* The memory of one queue.  Node 0 is the struct list_head q_new
\* allocates, nodes 1 .. MaxNodes are the list members of element_t; NULL
\* is the null pointer.  head is the pointer q_new returned, next / prev the
\* links, value the string of an element (strings are numbered in strcmp
\* order), live the elements allocated.  Observation only: made (q_new was
\* called), op / result (the last operation and what it returned), ref
\* (the contents a double-ended sequence would have), expect (what the
\* last operation returns on ref), before (the contents before the last
\* operation).
NULL == -1
Nodes == 0 .. MaxNodes
QueueNone ==
    [head |-> NULL,
     next |-> [n \in Nodes |-> NULL],
     prev |-> [n \in Nodes |-> NULL],
     value |-> [n \in Nodes |-> 0],
     live |-> {},
     made |-> FALSE, op |-> "none", result |-> 0,
     ref |-> <<>>, expect |-> 0, before |-> <<>>]
\* is_<op>_const before its loop: pc is the position, i the loop index,
\* state the local dudect_state_t.  Observation only: mains (dudect_main
\* calls made on the context of this try), inits / frees (dudect_init /
\* dudect_free calls made), ends (the verdict each try ended with), result
\* (the value returned).
DriverIdle ==
    [pc |-> "for", i |-> 0, state |-> DUDECT_NOT_ENOUGHT_MEASUREMENTS,
     mains |-> 0, inits |-> 0, frees |-> 0, ends |-> <<>>, result |-> FALSE]

\* the context after dudect_init: calloc'ed buffers, t_init'ed accumulators
Init ==
    /\ percentiles = [i \in Crops |-> 0]
    /\ ttest_ctxs = [k \in Tests |-> t_init]
    /\ ticks = [i \in Slots |-> 0]
    /\ exec_times = [i \in Slots |-> 0]
    /\ classes = [i \in Slots |-> 0]
    /\ ret = DUDECT_NOT_ENOUGHT_MEASUREMENTS
    /\ calls = 0
    /\ trace = NoTrace
    /\ meas = MeasIdle
    /\ heap = HeapNone
    /\ ttest = AccInit
    /\ queue = QueueNone
    /\ driver = DriverIdle

\* the inputs of a call: the labels prepare() writes and the advances of
\* the cycle counter during the computes
Batches ==
    {[cls |-> c, d |-> d] : c \in [Slots -> Classes],
                            d \in [0 .. number_measurements - 2 -> Deltas]}

\* labels alternate from slot to slot, the discarded slots take WarmDeltasT
BatchesT ==
    {[cls |-> [i \in Slots |-> (i + c) % 2],
      d |-> [i \in 0 .. number_measurements - 2 |->
                IF i < DISCARD_FIRST THEN w ELSE x]] :
        c \in Classes, w \in WarmDeltasT, x \in DeltasT}

Next == \E b \in Batches : DudectMain(b.cls, b.d, MaxCalls)

Spec == Init /\ [][Next]_vars

NextT == \E b \in BatchesT : DudectMain(b.cls, b.d, MaxCallsT)

SpecT == Init /\ [][NextT]_vars

\* Calibration batches with deltas further apart than an int holds.  On
\* every batch drawn from DeltasP cmp is a consistent total order (200 sorts
\* before -1, 0 and 2), so the result of qsort is determined.
BatchesP ==
    {[cls |-> [i \in Slots |-> (i + c) % 2], d |-> d] :
        c \in Classes, d \in [0 .. number_measurements - 2 -> DeltasP]}

NextP == \E b \in BatchesP : DudectMain(b.cls, b.d, MaxCallsP)

SpecP == Init /\ [][NextP]_vars

\* ---------------------------------------------------------------- dudect_main, step by step
\* the loop condition of measure's first loop
measuring_short(i) == i < number_measurements - 1

measuring(i) == i < number_measurements

\* ctx->config->prepare(...): the callback writes the labels; the counter
\* is taken to start the batch at 0, as in TickAt
Prepare(cls) ==
    /\ meas.pc = "idle"
    /\ calls < MaxCallsM
    /\ meas' = [MeasIdle EXCEPT !.pc = IF measuring(0) THEN "tick" ELSE "rest",
                                !.cls = cls,
                                !.events = <<<<"prepare", -1>>>>]
    /\ UNCHANGED <<percentiles, ttest_ctxs, ticks, exec_times, classes, ret,
                   calls, trace, heap, ttest, queue, driver>>

\* ctx->ticks[i] = cpucycles()
Tick ==
    /\ meas.pc = "tick"
    /\ meas' = [meas EXCEPT !.pc = "compute",
                            !.ticks[meas.i] = meas.clock,
                            !.events = Append(@, <<"cpucycles", meas.i>>)]
    /\ UNCHANGED <<percentiles, ttest_ctxs, ticks, exec_times, classes, ret,
                   calls, trace, heap, ttest, queue, driver>>

\* ctx->config->compute(..., ctx->input_data + i), during which the counter
\* advances by adv, then i++ and the loop condition
Compute(adv) ==
    /\ meas.pc = "compute"
    /\ meas' = [meas EXCEPT !.pc = IF measuring(meas.i + 1) THEN "tick" ELSE "rest",
                            !.i = meas.i + 1,
                            !.clock = meas.clock + adv,
                            !.d = IF meas.i \in DOMAIN meas.d
                                    THEN [@ EXCEPT ![meas.i] = adv] ELSE @,
                            !.events = Append(@, <<"compute", meas.i>>)]
    /\ UNCHANGED <<percentiles, ttest_ctxs, ticks, exec_times, classes, ret,
                   calls, trace, heap, ttest, queue, driver>>

\* the second loop of measure and the rest of dudect_main
Rest ==
    /\ meas.pc = "rest"
    /\ \E r \in {dudect_main(Ctx, meas.cls, meas.d)} :
        /\ percentiles' = r.percentiles
        /\ ttest_ctxs' = r.ttest_ctxs
        /\ ticks' = r.ticks
        /\ exec_times' = r.exec_times
        /\ classes' = r.classes
        /\ ret' = r.ret
        /\ trace' = r.trace
    /\ calls' = calls + 1
    /\ meas' = [meas EXCEPT !.pc = "idle", !.clock = 0]
    /\ UNCHANGED <<heap, ttest, queue, driver>>

\* ---------------------------------------------------------------- dudect_init, dudect_free
\* h.state = "init" / "free" while dudect_init / dudect_free runs; a
\* statement is skipped once the process has ended.
Running(h) == h.state \in {"init", "free"}

\* ctx->field = calloc(...) / malloc(...): fails for the points in fails
alloc(h, r, fails) ==
    IF ~Running(h) THEN h
    ELSE [h EXCEPT !.ptr[r] = IF r \in fails THEN "null" ELSE "live"]

\* an access through the pointer r.  Through a null pointer the process
\* ends with SIGSEGV; through a dangling pointer the behaviour is
\* undefined: the process ends there or goes on (survive).
access(h, r, survive) ==
    IF ~Running(h) \/ h.ptr[r] = "live" THEN h
    ELSE IF h.ptr[r] = "freed"
      THEN [h EXCEPT !.faults = @ \cup {"use_after_free"},
                     !.state = IF survive THEN @ ELSE "ended"]
    ELSE [h EXCEPT !.faults = @ \cup {"null_deref"}, !.state = "ended"]

\* assert(ctx->field)
assert_nonnull(h, r) ==
    IF ~Running(h) \/ h.ptr[r] # "null" THEN h
    ELSE [h EXCEPT !.faults = @ \cup {"assert"}, !.state = "ended"]

\* free(ctx->field): free(NULL) does nothing; freeing a dangling pointer is
\* a double free, undefined: the allocator aborts or goes on (survive)
free(h, r, survive) ==
    IF ~Running(h) \/ h.ptr[r] \in {"null", "unset"} THEN h
    ELSE IF h.ptr[r] = "live"
      THEN [h EXCEPT !.ptr[r] = "freed", !.frees[r] = @ + 1]
    ELSE [h EXCEPT !.frees[r] = @ + 1,
                   !.faults = @ \cup {"double_free"},
                   !.state = IF survive THEN @ ELSE "ended"]

\* for (i < DUDECT_TESTS) { calloc; assert; t_init }
RECURSIVE init_tests(_, _, _)
init_tests(h, fails, i) ==
    IF ~Running(h) \/ i >= DUDECT_TESTS THEN h
    ELSE LET r == <<"ttest_ctxs", i>>
         IN  init_tests(access(assert_nonnull(alloc(h, r, fails), r), r, FALSE),
                        fails, i + 1)

\* for (i < number_measurements) INIT_LIST_HEAD(&ctx->input_data[i])
RECURSIVE init_lists(_, _)
init_lists(h, i) ==
    IF ~Running(h) \/ i >= number_measurements THEN h
    ELSE init_lists(access(h, <<"input_data", 0>>, FALSE), i + 1)

RECURSIVE init_asserts(_, _)
init_asserts(h, rs) ==
    IF ~Running(h) \/ rs = <<>> THEN h
    ELSE init_asserts(assert_nonnull(h, <<Head(rs), 0>>), Tail(rs))

RECURSIVE init_buffers(_, _, _)
init_buffers(h, fails, rs) ==
    IF ~Running(h) \/ rs = <<>> THEN h
    ELSE init_buffers(alloc(h, <<Head(rs), 0>>, fails), fails, Tail(rs))

\* dudect_init when the allocations in fails return NULL
dudect_init(h, fails) ==
    LET h1 == alloc([h EXCEPT !.state = "init"], <<"config", 0>>, fails)
        h2 == access(h1, <<"config", 0>>, FALSE)
        h3 == init_buffers(h2, fails, <<"ticks", "exec_times", "classes", "input_data">>)
        h4 == init_tests(h3, fails, 0)
        h5 == init_lists(h4, 0)
        h6 == alloc(h5, <<"percentiles", 0>>, fails)
        h7 == init_asserts(h6, <<"ticks", "exec_times", "classes", "input_data",
                                 "percentiles">>)
    IN  IF Running(h7) THEN [h7 EXCEPT !.state = "usable"] ELSE h7

\* prepare_all / fixed_queue / random_queue empty every input slot and give
\* it at least one element; the computes add to the slots or remove from
\* them: after the call the slots in full hold elements, the others none
populate(h, full) ==
    [h EXCEPT !.ptr = [r \in DOMAIN h.ptr |->
                          IF r \in Elements
                            THEN (IF r[2] \in full THEN "live" ELSE "unset")
                            ELSE h.ptr[r]],
              !.frees = [r \in DOMAIN h.frees |-> IF r \in Elements THEN 0 ELSE h.frees[r]]]

RECURSIVE free_tests(_, _, _)
free_tests(h, survive, i) ==
    IF ~Running(h) \/ i >= DUDECT_TESTS THEN h
    ELSE free_tests(free(h, <<"ttest_ctxs", i>>, survive), survive, i + 1)

\* for (i < ctx->config->number_measurements)
\*     list_for_each_entry_safe (...) q_release_element(node)
RECURSIVE free_elements(_, _, _)
free_elements(h, survive, i) ==
    IF ~Running(h) \/ i >= number_measurements THEN h
    ELSE LET h1 == access(h, <<"config", 0>>, survive)
             h2 == access(h1, <<"input_data", 0>>, survive)
         IN  free_elements(free(h2, <<"element", i>>, survive), survive, i + 1)

RECURSIVE free_buffers(_, _, _)
free_buffers(h, survive, rs) ==
    IF ~Running(h) \/ rs = <<>> THEN h
    ELSE free_buffers(free(h, <<Head(rs), 0>>, survive), survive, Tail(rs))

dudect_free(h, survive) ==
    LET h1 == free_tests([h EXCEPT !.state = "free"], survive, 0)
        h2 == free(h1, <<"percentiles", 0>>, survive)
        h3 == free_elements(h2, survive, 0)
        h4 == free_buffers(h3, survive,
                           <<"input_data", "classes", "exec_times", "ticks", "config">>)
    IN  IF Running(h4) THEN [h4 EXCEPT !.state = "usable", !.freed = @ + 1]
        ELSE [h4 EXCEPT !.freed = @ + 1]

DudectInit(fails) ==
    /\ heap.state = "none"
    /\ heap' = dudect_init(heap, fails)
    /\ UNCHANGED <<percentiles, ttest_ctxs, ticks, exec_times, classes, ret,
                   calls, trace, meas, ttest, queue, driver>>

\* a dudect_main call populates the input slots
Populate(full) ==
    /\ heap.state = "usable"
    /\ heap.freed = 0
    /\ heap' = populate(heap, full)
    /\ UNCHANGED <<percentiles, ttest_ctxs, ticks, exec_times, classes, ret,
                   calls, trace, meas, ttest, queue, driver>>

DudectFree(survive) ==
    /\ heap.state = "usable"
    /\ heap.freed < MaxFrees
    /\ heap' = dudect_free(heap, survive)
    /\ UNCHANGED <<percentiles, ttest_ctxs, ticks, exec_times, classes, ret,
                   calls, trace, meas, ttest, queue, driver>>

FailureSets == {f \in SUBSET Allocations : Cardinality(f) <= MaxFailures}

NextH ==
    \/ \E fails \in FailureSets : DudectInit(fails)
    \/ \E full \in SUBSET Slots : Populate(full)
    \/ \E survive \in BOOLEAN : DudectFree(survive)

SpecH == Init /\ [][NextH]_vars

\* ---------------------------------------------------------------- t_push alone
\* t_push(ctx, x, class) on an accumulator made by t_init
TPush(x, class) ==
    /\ Len(ttest.pushed) < MaxPushes
    /\ ttest' = [ctx |-> t_push(ttest.ctx, D(x), class),
                 pushed |-> Append(ttest.pushed, <<x, class>>)]
    /\ UNCHANGED <<percentiles, ttest_ctxs, ticks, exec_times, classes, ret,
                   calls, trace, meas, heap, queue, driver>>

NextW == \E x \in PushValues, class \in Classes : TPush(x, class)

SpecW == Init /\ [][NextW]_vars

\* ---------------------------------------------------------------- list.h
\* q.next and q.prev are the links of every struct list_head
INIT_LIST_HEAD(q, head) ==
    [q EXCEPT !.next[head] = head, !.prev[head] = head]

list_add(q, node, head) ==
    LET next == q.next[head]
    IN  [q EXCEPT !.prev = [@ EXCEPT ![next] = node, ![node] = head],
                  !.next = [@ EXCEPT ![node] = next, ![head] = node]]

list_del(q, node) ==
    LET next == q.next[node]
        prev == q.prev[node]
    IN  [q EXCEPT !.prev[next] = prev, !.next[prev] = next]

list_move(q, node, head) == list_add(list_del(q, node), node, head)

list_empty(q, head) == q.next[head] = head

list_is_singular(q, head) == ~list_empty(q, head) /\ q.prev[head] = q.next[head]

\* strcmp on the numbered strings
strcmp(s1, s2) == s1 - s2

\* malloc(sizeof(element_t)): the lowest node not allocated
new_node(q) == CHOOSE n \in 1 .. MaxNodes : n \notin q.live /\ \A m \in 1 .. n - 1 : m \in q.live

\* q_release_element: the element and its string are freed
q_release_element(q, node) ==
    [q EXCEPT !.live = @ \ {node}, !.value[node] = 0,
              !.next[node] = NULL, !.prev[node] = NULL]

\* ---------------------------------------------------------------- queue.c
\* every operation returns [q |-> the memory after it, ret |-> its result]
q_new(q, ok) ==
    IF ok THEN [q |-> INIT_LIST_HEAD([q EXCEPT !.head = 0], 0), ret |-> 0]
    ELSE [q |-> q, ret |-> NULL]

\* ok: the two mallocs succeed
q_insert_head(q, head, s, ok) ==
    IF head = NULL THEN [q |-> q, ret |-> FALSE]
    ELSE IF ~ok THEN [q |-> q, ret |-> FALSE]
    ELSE LET element == new_node(q)
             q1 == [q EXCEPT !.live = @ \cup {element}, !.value[element] = s]
         IN  [q |-> list_add(q1, element, head), ret |-> TRUE]

q_insert_tail(q, head, s, ok) ==
    IF head = NULL THEN [q |-> q, ret |-> FALSE]
    ELSE q_insert_head(q, q.prev[head], s, ok)

q_remove_head(q, head) ==
    IF head = NULL \/ list_empty(q, head) THEN [q |-> q, ret |-> NULL]
    ELSE LET tmp == q.next[head]
         IN  [q |-> list_del(q, tmp), ret |-> tmp]

\* the head handed to q_remove_head one node late
q_remove_tail_one_prev(q, head) ==
    IF head = NULL \/ list_empty(q, head) THEN [q |-> q, ret |-> NULL]
    ELSE q_remove_head(q, q.prev[head])

q_remove_tail(q, head) ==
    IF head = NULL \/ list_empty(q, head) THEN [q |-> q, ret |-> NULL]
    ELSE q_remove_head(q, q.prev[q.prev[head]])

\* list_for_each (tmp, head) len++, from tmp on; a walk that has not come
\* back to head after every node was passed never ends (-1)
RECURSIVE q_size_loop(_, _, _, _)
q_size_loop(q, head, tmp, len) ==
    IF tmp = head THEN len
    ELSE IF len > MaxNodes THEN -1
    ELSE q_size_loop(q, head, q.next[tmp], len + 1)

q_size(q, head) ==
    IF head = NULL THEN 0
    ELSE q_size_loop(q, head, q.next[head], 0)

\* list_for_each_safe (node, safe, head) list_move(node, head)
RECURSIVE reverse_loop(_, _, _, _)
reverse_loop(q, head, node, safe) ==
    IF node = head THEN q
    ELSE LET q1 == list_move(q, node, head)
         IN  reverse_loop(q1, head, safe, q1.next[safe])

q_reverse(q, head) ==
    IF head = NULL \/ list_empty(q, head) \/ list_is_singular(q, head) THEN q
    ELSE reverse_loop(q, head, q.next[head], q.next[q.next[head]])

\* &dummy_head of merge; first is dummy_head.next
DUMMY == -2

\* list->next = node
link(m, node) ==
    IF m.list = DUMMY THEN [m EXCEPT !.first = node]
    ELSE [m EXCEPT !.q.next[m.list] = node]

\* the loop of merge and the statement after it; m holds the memory q,
\* dummy_head.next and the local list
RECURSIVE merge_loop(_, _, _)
merge_loop(m, left, right) ==
    IF left # NULL /\ right # NULL
      THEN IF strcmp(m.q.value[left], m.q.value[right]) <= 0
             THEN merge_loop([link(m, left) EXCEPT !.list = left],
                             m.q.next[left], right)
             ELSE merge_loop([link(m, right) EXCEPT !.list = right],
                             left, m.q.next[right])
    ELSE link(m, IF left # NULL THEN left ELSE right)

merge(q, left, right) ==
    LET m == merge_loop([q |-> q, first |-> NULL, list |-> DUMMY], left, right)
    IN  [q |-> m.q, ret |-> m.first]

\* while (fast && fast->next): the slow pointer at the end of the loop
RECURSIVE slow_loop(_, _, _)
slow_loop(q, slow, fast) ==
    IF fast # NULL /\ q.next[fast] # NULL
      THEN slow_loop(q, q.next[slow], q.next[q.next[fast]])
      ELSE slow

RECURSIVE mergeSort(_, _)
mergeSort(q, head) ==
    IF head = NULL \/ q.next[head] = NULL THEN [q |-> q, ret |-> head]
    ELSE LET slow == slow_loop(q, head, q.next[head])
             right == q.next[slow]
             l == mergeSort([q EXCEPT !.next[slow] = NULL], head)
             r == mergeSort(l.q, right)
         IN  merge(r.q, l.ret, r.ret)

\* the loop of q_sort that sets the prev links: the memory and the local
\* safe at its end
RECURSIVE prev_loop(_, _, _)
prev_loop(q, node, safe) ==
    IF q.next[safe] # NULL
      THEN prev_loop([q EXCEPT !.prev[safe] = node], safe, q.next[safe])
      ELSE [q |-> q, safe |-> safe]

q_sort(q, head, descend) ==
    IF head = NULL \/ list_empty(q, head) \/ list_is_singular(q, head) THEN q
    ELSE LET data_head == q.next[head]
             q1 == [q EXCEPT !.next[q.prev[head]] = NULL]
             sorted == mergeSort(q1, data_head)
             q2 == [sorted.q EXCEPT !.next[head] = sorted.ret]
             p == prev_loop(q2, head, q2.next[head])
             q3 == [p.q EXCEPT !.next[p.safe] = head, !.prev[head] = p.safe]
         IN  IF descend THEN q_reverse(q3, head) ELSE q3

\* whether q_purge deletes node, given the last node it kept
purges(s1, s2, descend) ==
    \/ (~descend /\ strcmp(s1, s2) <= 0)
    \/ (descend /\ strcmp(s1, s2) >= 0)

\* the loop of q_purge, from the tail towards the head
RECURSIVE purge_loop(_, _, _, _, _, _)
purge_loop(q, head, descend, node, peak, cnt) ==
    IF node = head THEN [q |-> q, ret |-> cnt]
    ELSE LET safe == q.prev[node]
             s1 == q.value[peak]
             s2 == q.value[node]
         IN  IF purges(s1, s2, descend)
               THEN purge_loop(q_release_element(list_del(q, node), node),
                               head, descend, safe, peak, cnt)
               ELSE purge_loop(q, head, descend, safe, node, cnt + 1)

q_purge(q, head, descend) ==
    IF head = NULL \/ list_empty(q, head) THEN [q |-> q, ret |-> 0]
    ELSE IF list_is_singular(q, head) THEN [q |-> q, ret |-> 1]
    ELSE purge_loop(q, head, descend, q.prev[q.prev[head]], q.prev[head], 1)

q_ascend(q, head) == q_purge(q, head, FALSE)

q_descend(q, head) == q_purge(q, head, TRUE)

\* ---------------------------------------------------------------- queue.c, operations
\* the strings of the queue from node tmp on, following next
RECURSIVE ContentsFrom(_, _, _)
ContentsFrom(q, tmp, fuel) ==
    IF tmp = q.head \/ tmp = NULL \/ fuel = 0 THEN <<>>
    ELSE <<q.value[tmp]>> \o ContentsFrom(q, q.next[tmp], fuel - 1)

Contents(q) ==
    IF q.head = NULL THEN <<>> ELSE ContentsFrom(q, q.next[q.head], MaxNodes + 1)

EngineVars == <<percentiles, ttest_ctxs, ticks, exec_times, classes, ret, calls, trace>>

QNew(ok) ==
    /\ ~queue.made
    /\ queue' = [q_new(queue, ok).q EXCEPT !.made = TRUE, !.op = "q_new"]
    /\ UNCHANGED <<EngineVars, meas, heap, ttest, driver>>

Observed(r, op, result, ref, expect) ==
    [r.q EXCEPT !.op = op, !.result = result, !.ref = ref, !.expect = expect,
                !.before = Contents(queue)]

QInsertHead(s, ok) ==
    /\ queue.made
    /\ Cardinality(queue.live) < MaxNodes
    /\ \E r \in {q_insert_head(queue, queue.head, s, ok)} :
         queue' = Observed(r, "q_insert_head", IF r.ret THEN 1 ELSE 0,
                           IF queue.head # NULL /\ ok THEN <<s>> \o queue.ref ELSE queue.ref,
                           IF queue.head # NULL /\ ok THEN 1 ELSE 0)
    /\ UNCHANGED <<EngineVars, meas, heap, ttest, driver>>

QInsertTail(s, ok) ==
    /\ queue.made
    /\ Cardinality(queue.live) < MaxNodes
    /\ \E r \in {q_insert_tail(queue, queue.head, s, ok)} :
         queue' = Observed(r, "q_insert_tail", IF r.ret THEN 1 ELSE 0,
                           IF queue.head # NULL /\ ok THEN Append(queue.ref, s) ELSE queue.ref,
                           IF queue.head # NULL /\ ok THEN 1 ELSE 0)
    /\ UNCHANGED <<EngineVars, meas, heap, ttest, driver>>

\* the caller releases the element it was given, as compute_remove_head does
Released(r) ==
    IF r.ret = NULL THEN r ELSE [r EXCEPT !.q = q_release_element(r.q, r.ret)]

QRemoveHead ==
    /\ queue.made
    /\ \E r \in {q_remove_head(queue, queue.head)} :
         queue' = Observed(Released(r), "q_remove_head",
                           IF r.ret = NULL THEN NULL ELSE queue.value[r.ret],
                           IF queue.ref = <<>> THEN <<>> ELSE Tail(queue.ref),
                           IF queue.ref = <<>> THEN NULL ELSE Head(queue.ref))
    /\ UNCHANGED <<EngineVars, meas, heap, ttest, driver>>

QRemoveTail ==
    /\ queue.made
    /\ \E r \in {q_remove_tail(queue, queue.head)} :
         queue' = Observed(Released(r), "q_remove_tail",
                           IF r.ret = NULL THEN NULL ELSE queue.value[r.ret],
                           IF queue.ref = <<>> THEN <<>>
                             ELSE SubSeq(queue.ref, 1, Len(queue.ref) - 1),
                           IF queue.ref = <<>> THEN NULL ELSE queue.ref[Len(queue.ref)])
    /\ UNCHANGED <<EngineVars, meas, heap, ttest, driver>>

QSize ==
    /\ queue.made
    /\ queue.op # "q_size"
    /\ queue' = Observed([q |-> queue], "q_size", q_size(queue, queue.head),
                         queue.ref, Len(queue.ref))
    /\ UNCHANGED <<EngineVars, meas, heap, ttest, driver>>

QAscend ==
    /\ queue.made
    /\ \E r \in {q_ascend(queue, queue.head)} :
         queue' = Observed(r, "q_ascend", r.ret, Contents(r.q), r.ret)
    /\ UNCHANGED <<EngineVars, meas, heap, ttest, driver>>

QDescend ==
    /\ queue.made
    /\ \E r \in {q_descend(queue, queue.head)} :
         queue' = Observed(r, "q_descend", r.ret, Contents(r.q), r.ret)
    /\ UNCHANGED <<EngineVars, meas, heap, ttest, driver>>

QSort(descend) ==
    /\ queue.made
    /\ queue.op \notin {"q_sort", "q_sort descend"}
    /\ \E q \in {q_sort(queue, queue.head, descend)} :
         queue' = Observed([q |-> q], IF descend THEN "q_sort descend" ELSE "q_sort",
                           0, Contents(q), 0)
    /\ UNCHANGED <<EngineVars, meas, heap, ttest, driver>>

NextS ==
    \/ \E ok \in BOOLEAN : QNew(ok)
    \/ \E s \in Strings, ok \in BOOLEAN : QInsertHead(s, ok)
    \/ \E s \in Strings, ok \in BOOLEAN : QInsertTail(s, ok)
    \/ \E descend \in BOOLEAN : QSort(descend)

SpecS == Init /\ [][NextS]_vars

NextA ==
    \/ \E ok \in BOOLEAN : QNew(ok)
    \/ \E s \in Strings, ok \in BOOLEAN : QInsertHead(s, ok)
    \/ \E s \in Strings, ok \in BOOLEAN : QInsertTail(s, ok)
    \/ QAscend
    \/ QDescend

SpecA == Init /\ [][NextA]_vars

NextQ ==
    \/ \E ok \in BOOLEAN : QNew(ok)
    \/ \E s \in Strings, ok \in BOOLEAN : QInsertHead(s, ok)
    \/ \E s \in Strings, ok \in BOOLEAN : QInsertTail(s, ok)
    \/ QRemoveHead
    \/ QRemoveTail
    \/ QSize

SpecQ == Init /\ [][NextQ]_vars

\* ---------------------------------------------------------------- is_<op>_const
\* The values dudect_main can return on a context that has had mains calls:
\* the first call calibrates and returns not-enough-measurements, a later
\* one returns what report returns.  The context itself is followed in the
\* other specifications; here only the verdict steers the driver.
dudect_main_returns(mains) ==
    IF mains = 0 THEN {DUDECT_NOT_ENOUGHT_MEASUREMENTS}
    ELSE {DUDECT_NOT_ENOUGHT_MEASUREMENTS, DUDECT_NO_LEAKAGE_EVIDENCE_YET,
          DUDECT_LEAKAGE_FOUND}

\* one try too many
tries_left_inclusive(i) == i <= TEST_TRIES

\* the condition of the for loop
tries_left(i) == i < TEST_TRIES

\* for (i < TEST_TRIES) { ...; dudect_init(&ctx, &config_op);
\*                        state = DUDECT_NOT_ENOUGHT_MEASUREMENTS;
TryBegin ==
    /\ driver.pc = "for"
    /\ tries_left(driver.i)
    /\ driver' = [driver EXCEPT !.pc = "while",
                                !.state = DUDECT_NOT_ENOUGHT_MEASUREMENTS,
                                !.mains = 0,
                                !.inits = @ + 1]
    /\ UNCHANGED <<EngineVars, meas, heap, ttest, queue>>

\* while (state == DUDECT_NOT_ENOUGHT_MEASUREMENTS) state = dudect_main(&ctx);
TryMain(state) ==
    /\ driver.pc = "while"
    /\ driver.state = DUDECT_NOT_ENOUGHT_MEASUREMENTS
    /\ driver.mains < MaxMains
    /\ state \in dudect_main_returns(driver.mains)
    /\ driver' = [driver EXCEPT !.state = state, !.mains = @ + 1]
    /\ UNCHANGED <<EngineVars, meas, heap, ttest, queue>>

\* dudect_free(&ctx); if (state == DUDECT_NO_LEAKAGE_EVIDENCE_YET) return true;
\* } and i++
TryEnd ==
    /\ driver.pc = "while"
    /\ driver.state # DUDECT_NOT_ENOUGHT_MEASUREMENTS
    /\ driver' = [driver EXCEPT
                    !.frees = @ + 1,
                    !.ends = Append(@, driver.state),
                    !.pc = IF driver.state = DUDECT_NO_LEAKAGE_EVIDENCE_YET
                             THEN "returned" ELSE "for",
                    !.result = driver.state = DUDECT_NO_LEAKAGE_EVIDENCE_YET,
                    !.i = IF driver.state = DUDECT_NO_LEAKAGE_EVIDENCE_YET
                            THEN @ ELSE @ + 1]
    /\ UNCHANGED <<EngineVars, meas, heap, ttest, queue>>

\* return false; after the loop
ReturnFalse ==
    /\ driver.pc = "for"
    /\ ~tries_left(driver.i)
    /\ driver' = [driver EXCEPT !.pc = "returned", !.result = FALSE]
    /\ UNCHANGED <<EngineVars, meas, heap, ttest, queue>>

NextD ==
    \/ TryBegin
    \/ \E state \in {DUDECT_NOT_ENOUGHT_MEASUREMENTS, DUDECT_NO_LEAKAGE_EVIDENCE_YET,
                      DUDECT_LEAKAGE_FOUND} : TryMain(state)
    \/ TryEnd
    \/ ReturnFalse

SpecD == Init /\ [][NextD]_vars

\* ---------------------------------------------------------------- the inner loop
\* One try of the driver on the engine itself: dudect_init, then dudect_main
\* on the context until it returns something other than
\* DUDECT_NOT_ENOUGHT_MEASUREMENTS, then dudect_free.  The loop has no
\* counter in the code; calls and driver.mains count up to MaxLoop.

\* dudect_init(&ctx, &config_op); state = DUDECT_NOT_ENOUGHT_MEASUREMENTS;
LoopBegin ==
    /\ driver.pc = "for"
    /\ tries_left(driver.i)
    /\ percentiles' = [i \in Crops |-> 0]
    /\ ttest_ctxs' = [k \in Tests |-> t_init]
    /\ ticks' = [i \in Slots |-> 0]
    /\ exec_times' = [i \in Slots |-> 0]
    /\ classes' = [i \in Slots |-> 0]
    /\ ret' = DUDECT_NOT_ENOUGHT_MEASUREMENTS
    /\ calls' = 0
    /\ trace' = NoTrace
    /\ driver' = [driver EXCEPT !.pc = "while",
                                !.state = DUDECT_NOT_ENOUGHT_MEASUREMENTS,
                                !.mains = 0,
                                !.inits = @ + 1]
    /\ UNCHANGED <<meas, heap, ttest, queue>>

\* while (state == DUDECT_NOT_ENOUGHT_MEASUREMENTS): the loop is entered
\* again and dudect_main runs prepare and measure, which leave the labels
\* cls and the advances d of the counter
LoopMeasure(cls, d) ==
    /\ driver.pc = "while"
    /\ driver.state = DUDECT_NOT_ENOUGHT_MEASUREMENTS
    /\ meas.pc = "idle"
    /\ meas' = [MeasIdle EXCEPT !.pc = "rest", !.cls = cls, !.d = d]
    /\ UNCHANGED <<EngineVars, heap, ttest, queue, driver>>

\* the rest of dudect_main, and state = its return value
LoopMain ==
    /\ driver.pc = "while"
    /\ meas.pc = "rest"
    /\ \E r \in {dudect_main(Ctx, meas.cls, meas.d)} :
        /\ percentiles' = r.percentiles
        /\ ttest_ctxs' = r.ttest_ctxs
        /\ ticks' = r.ticks
        /\ exec_times' = r.exec_times
        /\ classes' = r.classes
        /\ ret' = r.ret
        /\ trace' = r.trace
        /\ driver' = [driver EXCEPT
                        !.state = r.ret,
                        !.mains = IF @ < MaxLoop THEN @ + 1 ELSE @]
    /\ calls' = IF calls < MaxLoop THEN calls + 1 ELSE calls
    /\ meas' = MeasIdle
    /\ UNCHANGED <<heap, ttest, queue>>

\* dudect_free(&ctx); and the end of the try, as in TryEnd
LoopEnd ==
    /\ meas.pc = "idle"
    /\ TryEnd

\* labels alternate from slot to slot, every advance is drawn from Deltas
BatchesL ==
    {[cls |-> [i \in Slots |-> (i + c) % 2], d |-> d] :
        c \in Classes, d \in [0 .. number_measurements - 2 -> Deltas]}

NextL ==
    \/ LoopBegin
    \/ \E b \in BatchesL : LoopMeasure(b.cls, b.d)
    \/ LoopMain
    \/ LoopEnd

\* the step of LoopMain as meas shows it: the call in progress returns
\* (while meas.pc = "rest" no other step of NextL is possible)
LoopMainReturns ==
    /\ driver.pc = "while"
    /\ meas.pc = "rest"
    /\ meas' = MeasIdle

\* The driver is sequential code and the callbacks return: a statement that
\* can run does run.  Which batch a call measures is not constrained.
SpecL ==
    /\ Init
    /\ [][NextL]_vars
    /\ WF_vars(LoopBegin)
    /\ WF_vars(\E b \in BatchesL : LoopMeasure(b.cls, b.d))
    /\ WF_meas(LoopMainReturns)
    /\ WF_vars(LoopEnd)

NextM ==
    \/ \E cls \in [Slots -> Classes] : Prepare(cls)
    \/ Tick
    \/ \E adv \in Deltas : Compute(adv)
    \/ Rest

SpecM == Init /\ [][NextM]_vars

\* ---------------------------------------------------------------- properties
Raw == ttest_ctxs[0]
Selected == ttest_ctxs[trace.selected]
RealVerdict == ret \in {DUDECT_NO_LEAKAGE_EVIDENCE_YET, DUDECT_LEAKAGE_FOUND}

\* C1: whenever dudect_main returns a verdict other than
\* not-enough-measurements, the accumulator the verdict was computed from has
\* a class-0 count greater than DUDECT_ENOUGH_MEASUREMENTS.
C1_VerdictOnlyPastGate ==
    (trace.reported /\ RealVerdict)
        => Selected.n[0] > DUDECT_ENOUGH_MEASUREMENTS

\* C2: t_compute is never invoked on an accumulator whose count for class 0
\* or for class 1 is <= 1 (report does not change the accumulators, so the
\* counts at the time of the call are the ones of the state after the call).
C2_ComputeOnlyWithTwoSamples ==
    \A j \in 1 .. Len(trace.computed) :
        /\ ttest_ctxs[trace.computed[j]].n[0] > 1
        /\ ttest_ctxs[trace.computed[j]].n[1] > 1

\* C3: the first dudect_main call on a fresh context calibrates only: it
\* returns not-enough-measurements and leaves every accumulator as t_init
\* left it, whatever the batch.
C3_FirstCallCalibratesOnly ==
    calls = 1 =>
        /\ ret = DUDECT_NOT_ENOUGHT_MEASUREMENTS
        /\ trace.calibrated /\ ~trace.updated /\ ~trace.reported
        /\ \A k \in Tests : ttest_ctxs[k] = t_init

\* a first call whose batch had positive deltas in both classes' slots
C3_Witness ==
    /\ calls = 1
    /\ \A j \in DOMAIN trace.batch : trace.batch[j] > 0
    /\ classes[DISCARD_FIRST] = 1
    /\ percentiles[DUDECT_NUMBER_PERCENTILES - 1] > 0

\* C4: calibration runs exactly once per context: prepare_percentiles runs
\* in the first call only, and every later call runs update_statistics and
\* report instead and leaves the thresholds the first call stored unchanged.
C4_CalibrationInFirstCallOnly ==
    [][calls >= 1 => /\ ~trace'.calibrated
                     /\ trace'.updated /\ trace'.reported
                     /\ percentiles' = percentiles]_vars

\* C5: a step that ends with the raw accumulator's class-0 count exactly
\* DUDECT_ENOUGH_MEASUREMENTS - 1 returns not-enough-measurements whatever
\* its class-1 count is, and one that ends with that count exactly
\* DUDECT_ENOUGH_MEASUREMENTS returns a real verdict.
C5_GateBoundary ==
    trace.reported =>
        /\ Raw.n[0] = DUDECT_ENOUGH_MEASUREMENTS - 1
              => ret = DUDECT_NOT_ENOUGHT_MEASUREMENTS
        /\ Raw.n[0] = DUDECT_ENOUGH_MEASUREMENTS => RealVerdict

\* the t_push calls of a log made on test k, as <<x, class>> in order
RECURSIVE PushesTo(_, _)
PushesTo(log, k) ==
    IF log = <<>> THEN <<>>
    ELSE (IF Head(log)[1] = k THEN <<<<Head(log)[2], Head(log)[3]>>>> ELSE <<>>)
         \o PushesTo(Tail(log), k)

\* the accepted deltas of a batch from index i on, with their labels, in
\* order: index >= DISCARD_FIRST and delta >= 0
RECURSIVE AcceptedFrom(_, _, _)
AcceptedFrom(times, cls, i) ==
    IF i > number_measurements - 2 THEN <<>>
    ELSE (IF times[i] >= 0 THEN <<<<times[i], cls[i]>>>> ELSE <<>>)
         \o AcceptedFrom(times, cls, i + 1)

Accepted(times, cls) == AcceptedFrom(times, cls, DISCARD_FIRST)

\* the number of entries of a sequence of <<x, class>> that have class c
RECURSIVE CountClass(_, _)
CountClass(seq, c) ==
    IF seq = <<>> THEN 0
    ELSE (IF Head(seq)[2] = c THEN 1 ELSE 0) + CountClass(Tail(seq), c)

\* C6, walked along the log of a call from position j, raw being the raw
\* accumulator before the push at j: after each push <<0, d, c>> into the raw
\* accumulator and before the next one, there is a push into the
\* second-order accumulator exactly when a raw count exceeds
\* SECOND_ORDER_MIN at that point, and it pushes (d - raw mean[c])^2 under c
RECURSIVE C6_Walk(_, _, _)
C6_Walk(raw, log, j) ==
    IF j > Len(log) THEN TRUE
    ELSE IF log[j][1] # 0 THEN C6_Walk(raw, log, j + 1)
    ELSE LET raw1 == t_push(raw, log[j][2], log[j][3])
             later == {m \in (j + 1) .. Len(log) : log[m][1] = 0}
             stop == IF later = {} THEN Len(log) + 1
                     ELSE CHOOSE m \in later : \A o \in later : m <= o
             second == {m \in (j + 1) .. (stop - 1) :
                           log[m][1] = 1 + DUDECT_NUMBER_PERCENTILES}
             centered == DSub(log[j][2], raw1.mean[log[j][3]])
         IN  /\ (second # {}) <=> (raw1.n[0] > SECOND_ORDER_MIN
                                    \/ raw1.n[1] > SECOND_ORDER_MIN)
             /\ Cardinality(second) <= 1
             /\ \A m \in second : /\ log[m][2] = DMul(centered, centered)
                                  /\ log[m][3] = log[j][3]
             /\ C6_Walk(raw1, log, j + 1)

\* C6: in update_statistics an accepted delta is pushed into the
\* second-order accumulator exactly when the raw accumulator's count for
\* either class exceeds the literal 10000 (SECOND_ORDER_MIN) at that point,
\* and the value pushed is (delta - raw mean of its class) squared, under
\* the delta's class.
C6_SecondOrderWhenEitherClassExceeds ==
    [][trace'.updated => C6_Walk(ttest_ctxs[0], trace'.pushes, 1)]_vars

\* the pushes C9 expects on test k for the accepted deltas acc
RECURSIVE C9_Expected(_, _, _)
C9_Expected(acc, pct, k) ==
    IF acc = <<>> THEN <<>>
    ELSE (IF k = 0 \/ Head(acc)[1] < pct[k - 1]
            THEN <<<<D(Head(acc)[1]), Head(acc)[2]>>>> ELSE <<>>)
         \o C9_Expected(Tail(acc), pct, k)

\* C9: for every accepted delta d (index >= DISCARD_FIRST, d >= 0) with label
\* c, update_statistics pushes (d, c) into the raw accumulator exactly once
\* and into cropped accumulator i + 1 exactly once if and only if
\* d < percentiles[i]; the counts of these accumulators grow by the pushes.
C9_RawAndCroppedPushes ==
    [][trace'.updated =>
        \A k \in 0 .. DUDECT_NUMBER_PERCENTILES :
            LET want == C9_Expected(Accepted(exec_times', classes'), percentiles, k)
            IN  /\ PushesTo(trace'.pushes, k) = want
                /\ \A c \in Classes :
                     ttest_ctxs'[k].n[c] = ttest_ctxs[k].n[c] + CountClass(want, c)
      ]_vars

\* a call that pushed one delta into the raw accumulator and into the upper
\* cropped accumulators, but not into cropped accumulator 1
C9_Witness ==
    /\ trace.updated
    /\ Len(PushesTo(trace.pushes, 0)) = 1
    /\ Len(PushesTo(trace.pushes, 1)) = 0
    /\ Len(PushesTo(trace.pushes, 2)) = 1
    /\ Len(PushesTo(trace.pushes, DUDECT_NUMBER_PERCENTILES)) = 1

\* update_statistics on the accepted deltas alone
RECURSIVE C10_Replay(_, _, _)
C10_Replay(s, pct, acc) ==
    IF acc = <<>> THEN s
    ELSE C10_Replay(update_one(s, pct, Head(acc)[1], Head(acc)[2]), pct, Tail(acc))

\* C10: a delta that is negative, or whose index in the batch is below
\* DISCARD_FIRST, changes no accumulator: after update_statistics every
\* accumulator is what the batch without these deltas makes it.
C10_DiscardedDeltasChangeNothing ==
    [][trace'.updated =>
        ttest_ctxs' = C10_Replay([ctxs |-> ttest_ctxs, pushes |-> <<>>], percentiles,
                                 Accepted(exec_times', classes')).ctxs
      ]_vars

\* a call on filled accumulators whose batch had a positive delta in the
\* discarded slot and a negative delta in the slot update_statistics reads
C10_Witness ==
    /\ trace.updated
    /\ exec_times[0] > 0
    /\ exec_times[DISCARD_FIRST] < 0
    /\ Raw.n[0] > 0 /\ Raw.n[1] > 0

\* x >= y on doubles: false when either is NaN
DGeq(x, y) == x # NaN /\ y # NaN /\ ~DLess(x, y)

\* C7: once report's gate is passed, the verdict is a function of
\* max_t = |t| of the selected accumulator only: leakage-found if
\* max_t > t_threshold_moderate (which covers max_t > t_threshold_bananas),
\* no-leakage-evidence-yet otherwise, max_t = t_threshold_moderate included.
C7_VerdictFromMaxT ==
    (trace.reported /\ ret # DUDECT_NOT_ENOUGHT_MEASUREMENTS) =>
        /\ trace.max_t = fabs_t(Selected)
        /\ ret = IF DLess(D(Square(t_threshold_moderate)), trace.max_t)
                   THEN DUDECT_LEAKAGE_FOUND
                   ELSE DUDECT_NO_LEAKAGE_EVIDENCE_YET

\* a verdict given for max_t exactly t_threshold_moderate
C7_Witness ==
    /\ trace.reported
    /\ trace.max_t = D(Square(t_threshold_moderate))
    /\ ret = DUDECT_NO_LEAKAGE_EVIDENCE_YET

Gated == {i \in Tests : ttest_ctxs[i].n[0] > DUDECT_ENOUGH_MEASUREMENTS}

\* C8: when at least one accumulator has class-0 count >
\* DUDECT_ENOUGH_MEASUREMENTS, max_test returns an accumulator that itself
\* meets that gate; no accumulator meeting the gate has a greater |t|, and
\* the |t| of the one returned is a number >= every |t| of a gated
\* accumulator that is a number.  Accumulators outside the gate play no
\* part: the conditions read the gated ones only.
C8_MaxTestPicksGatedMaximum ==
    (trace.reported /\ Gated # {}) =>
        /\ trace.selected \in Gated
        /\ \A i \in Gated :
             /\ ~DLess(fabs_t(Selected), fabs_t(ttest_ctxs[i]))
             /\ fabs_t(ttest_ctxs[i]) # NaN
                  => DGeq(fabs_t(Selected), fabs_t(ttest_ctxs[i]))

\* max_test returned a cropped accumulator whose |t| is greater than the
\* |t| of the raw accumulator, both past the gate and both numbers
C8_Witness ==
    /\ trace.reported
    /\ trace.selected \in 1 .. DUDECT_NUMBER_PERCENTILES
    /\ {0, trace.selected} \subseteq Gated
    /\ fabs_t(Raw) # NaN
    /\ DLess(fabs_t(Raw), fabs_t(Selected))

\* C11: after calibration the thresholds are non-decreasing in index:
\* percentiles[i] <= percentiles[i + 1] for every i in
\* [0, DUDECT_NUMBER_PERCENTILES - 1), for any calibration batch.
C11_ThresholdsNonDecreasing ==
    trace.calibrated =>
        \A i \in 0 .. DUDECT_NUMBER_PERCENTILES - 2 :
            percentiles[i] <= percentiles[i + 1]

\* C12: the accumulators are cumulative across dudect_main calls: no count
\* n[c] of any accumulator ever decreases, no accumulator that holds samples
\* goes back to its t_init state, and each t_push raises the count of the
\* pushed class of the accumulator pushed into by exactly 1 and no other
\* count (so a call raises n[c] of accumulator k by its number of pushes of
\* class c into k).
C12_AccumulatorsCumulative ==
    [][\A k \in Tests :
          /\ \A c \in Classes :
                /\ ttest_ctxs'[k].n[c] >= ttest_ctxs[k].n[c]
                /\ ttest_ctxs'[k].n[c] =
                     ttest_ctxs[k].n[c] + CountClass(PushesTo(trace'.pushes, k), c)
          /\ ttest_ctxs[k] # t_init => ttest_ctxs'[k] # t_init
      ]_vars

\* a call that pushed into accumulators which earlier calls had filled
C12_Witness ==
    /\ trace.updated
    /\ Len(trace.pushes) > 1
    /\ Raw.n[0] + Raw.n[1] >= 3
    /\ ttest_ctxs[DUDECT_NUMBER_PERCENTILES].n[1] >= 2

\* the calls of one dudect_main call, in order: prepare, then for each slot
\* the timestamp and the compute on that slot
RECURSIVE C13_ExpectedFrom(_)
C13_ExpectedFrom(i) ==
    IF i >= number_measurements THEN <<>>
    ELSE <<<<"cpucycles", i>>, <<"compute", i>>>> \o C13_ExpectedFrom(i + 1)

C13_Expected == <<<<"prepare", -1>>>> \o C13_ExpectedFrom(0)

\* C13: each dudect_main call invokes prepare exactly once, before any
\* timestamp is read, then compute exactly number_measurements times, on
\* slots 0 .. N - 1 in increasing order, each right after the timestamp of
\* its slot and with nothing between them; the N - 1 deltas are the
\* differences of consecutive timestamps (trace.batch holds the deltas as
\* measure left them, before calibration sorts exec_times in place).
C13_MeasureOrder ==
    /\ Len(meas.events) <= Len(C13_Expected)
    /\ meas.events = SubSeq(C13_Expected, 1, Len(meas.events))
    /\ meas.pc = "rest" => meas.events = C13_Expected
    /\ (meas.pc = "idle" /\ calls > 0) =>
          /\ meas.events = C13_Expected
          /\ classes = meas.cls
          /\ ticks = meas.ticks
          /\ Len(trace.batch) = number_measurements - 1
          /\ \A i \in 0 .. number_measurements - 2 :
                trace.batch[i + 1] = meas.ticks[i + 1] - meas.ticks[i]

\* a second call completed, with a positive and a negative delta
C13_Witness ==
    /\ meas.pc = "idle"
    /\ calls = 2
    /\ Len(meas.events) = 1 + 2 * number_measurements
    /\ exec_times[0] > 0
    /\ exec_times[1] < 0

\* C14: teardown is idempotent: however many times dudect_free is called on
\* a context, each allocation the context owns is released at most once and
\* no allocation already released is read.
C14_TeardownIdempotent ==
    /\ \A r \in DOMAIN heap.frees : heap.frees[r] <= 1
    /\ heap.faults \cap {"double_free", "use_after_free"} = {}

\* C15: construction fails atomically: when an allocation of dudect_init
\* fails, dudect_init does not return success, does not dereference the
\* failed allocation, and a context reported usable has every allocation.
C15_ConstructionAtomic ==
    heap.freed = 0 =>
        /\ "null_deref" \notin heap.faults
        /\ heap.state = "usable" => \A r \in Allocations : heap.ptr[r] = "live"

\* the values of class c among the pushes, in order
RECURSIVE C16_Values(_, _)
C16_Values(pushed, c) ==
    IF pushed = <<>> THEN <<>>
    ELSE (IF Head(pushed)[2] = c THEN <<Head(pushed)[1]>> ELSE <<>>)
         \o C16_Values(Tail(pushed), c)

RECURSIVE C16_Sum(_)
C16_Sum(xs) == IF xs = <<>> THEN 0 ELSE Head(xs) + C16_Sum(Tail(xs))

\* the sum of (x - mean)^2 over xs, second pass of the two-pass variance
RECURSIVE C16_SquaredDeviations(_, _)
C16_SquaredDeviations(xs, mean) ==
    IF xs = <<>> THEN D(0)
    ELSE DAdd(DMul(DSub(D(Head(xs)), mean), DSub(D(Head(xs)), mean)),
              C16_SquaredDeviations(Tail(xs), mean))

\* C16: after any sequence of pushes into an accumulator made by t_init,
\* for each class n is the number of pushes of the class, mean the
\* arithmetic mean of the values pushed and m2 the sum of the squared
\* deviations from that mean, which is >= 0 (exact arithmetic; the
\* rounding of doubles is not modelled).
C16_WelfordMatchesTwoPass ==
    \A c \in Classes :
        LET xs == C16_Values(ttest.pushed, c)
            mean == IF xs = <<>> THEN D(0) ELSE DNorm(C16_Sum(xs), Len(xs))
        IN  /\ ttest.ctx.n[c] = Len(xs)
            /\ ttest.ctx.mean[c] = mean
            /\ ttest.ctx.m2[c] = C16_SquaredDeviations(xs, mean)
            /\ ~DLess(ttest.ctx.m2[c], D(0))

\* both classes hold two values or more, with a mean that is not one of
\* the values and a variance that is not 0
C16_Witness ==
    /\ \A c \in Classes : ttest.ctx.n[c] >= 2 /\ ttest.ctx.m2[c] # D(0)
    /\ ttest.ctx.mean[1][2] > 1

\* every node of the list, the head included, is linked both ways, and the
\* list holds every allocated element
Consistent(q) ==
    q.head # NULL =>
        /\ \A x \in {q.head} \cup q.live :
              /\ q.next[x] \in {q.head} \cup q.live
              /\ q.prev[x] \in {q.head} \cup q.live
              /\ q.prev[q.next[x]] = x
              /\ q.next[q.prev[x]] = x
        /\ Len(Contents(q)) = Cardinality(q.live)

\* C18: for any sequence of q_insert_head, q_insert_tail, q_remove_head and
\* q_remove_tail calls on a queue made by q_new, the contents are those of
\* a double-ended sequence and every call returns what it returns on that
\* sequence, q_size returns its length, the list is a consistent circular
\* doubly linked list, and a remove on an empty or NULL queue returns NULL
\* and changes nothing.
C18_DequeRefinement ==
    queue.made =>
        /\ Contents(queue) = queue.ref
        /\ queue.result = queue.expect
        /\ q_size(queue, queue.head) = Len(queue.ref)
        /\ Consistent(queue)
        /\ (queue.op \in {"q_remove_head", "q_remove_tail"} /\ queue.before = <<>>)
              => queue.result = NULL /\ Contents(queue) = <<>>

\* a remove at the tail of a queue of three that took the last string in
C18_Witness ==
    /\ queue.op = "q_remove_tail"
    /\ Len(queue.before) = MaxNodes
    /\ queue.result = queue.before[MaxNodes]
    /\ queue.before[1] # queue.before[MaxNodes]
    /\ Len(Contents(queue)) = MaxNodes - 1

\* the strings of xs from position i on that have no string to their right
\* which is strictly smaller (descend false) or strictly greater (descend
\* true)
RECURSIVE C17_Kept(_, _, _)
C17_Kept(xs, i, descend) ==
    IF i > Len(xs) THEN <<>>
    ELSE (IF \E j \in (i + 1) .. Len(xs) :
                 IF descend THEN xs[j] > xs[i] ELSE xs[j] < xs[i]
            THEN <<>> ELSE <<xs[i]>>)
         \o C17_Kept(xs, i + 1, descend)

\* C17: q_ascend removes exactly the nodes that have a strictly smaller
\* value somewhere to their right and q_descend exactly those that have a
\* strictly greater one; the nodes left keep their order, the list stays
\* consistent and the value returned is the number of nodes left.
C17_PurgeRemovesStrictlyDominated ==
    queue.op \in {"q_ascend", "q_descend"} =>
        /\ Contents(queue) = C17_Kept(queue.before, 1, queue.op = "q_descend")
        /\ queue.result = Len(Contents(queue))
        /\ Consistent(queue)

\* the number of times s occurs in xs
RECURSIVE C19_Count(_, _)
C19_Count(xs, s) ==
    IF xs = <<>> THEN 0
    ELSE (IF Head(xs) = s THEN 1 ELSE 0) + C19_Count(Tail(xs), s)

\* C19: after q_sort(head, descend) the queue holds a permutation of the
\* elements it held before, in non-decreasing strcmp order when descend is
\* false and non-increasing order when it is true, and the list is again a
\* consistent circular doubly linked list.
C19_SortPermutesOrdersRelinks ==
    queue.op \in {"q_sort", "q_sort descend"} =>
        LET xs == Contents(queue)
        IN  /\ Len(xs) = Len(queue.before)
            /\ \A s \in Strings : C19_Count(xs, s) = C19_Count(queue.before, s)
            /\ \A i \in 1 .. Len(xs) - 1 :
                  IF queue.op = "q_sort" THEN strcmp(xs[i], xs[i + 1]) <= 0
                                         ELSE strcmp(xs[i], xs[i + 1]) >= 0
            /\ Consistent(queue)

\* C20: is_<op>_const makes at most TEST_TRIES tries; each try makes one
\* context with dudect_init, calls dudect_main until the verdict is not
\* not-enough-measurements, then calls dudect_free exactly once on it; it
\* returns true at the first try that ends in no-leakage-evidence-yet, and
\* false if and only if all TEST_TRIES tries end in leakage-found.
C20_DriverTries ==
    LET ends == driver.ends
        AllLeak(n) == \A j \in 1 .. n : ends[j] = DUDECT_LEAKAGE_FOUND
    IN  /\ driver.inits <= TEST_TRIES
        /\ driver.frees = Len(ends)
        /\ driver.inits = driver.frees + (IF driver.pc = "while" THEN 1 ELSE 0)
        /\ \A j \in 1 .. Len(ends) : ends[j] # DUDECT_NOT_ENOUGHT_MEASUREMENTS
        /\ driver.pc # "returned" => AllLeak(Len(ends))
        /\ driver.pc = "returned" =>
              /\ driver.result <=>
                    /\ ends # <<>>
                    /\ ends[Len(ends)] = DUDECT_NO_LEAKAGE_EVIDENCE_YET
                    /\ AllLeak(Len(ends) - 1)
              /\ ~driver.result <=> (Len(ends) = TEST_TRIES /\ AllLeak(TEST_TRIES))

\* the driver returned false after TEST_TRIES tries
C20_Witness ==
    /\ driver.pc = "returned"
    /\ ~driver.result
    /\ driver.inits = TEST_TRIES
    /\ driver.frees = TEST_TRIES

\* C21: verdicts do not regress: once a dudect_main call on a context has
\* returned no-leakage-evidence-yet or leakage-found, no later call on the
\* context returns not-enough-measurements, whatever the later batches and
\* whichever accumulator max_test selects.
C21_VerdictsDoNotRegress ==
    [][RealVerdict => ret' # DUDECT_NOT_ENOUGHT_MEASUREMENTS]_vars

\* a verdict from a cropped accumulator, given two calls or more after the
\* raw accumulator reached the count at which report gives verdicts
C21_Witness ==
    /\ RealVerdict
    /\ trace.selected # 0
    /\ Raw.n[0] + Raw.n[1] >= DUDECT_ENOUGH_MEASUREMENTS + 2

\* C22: in every reachable state and for each class c, the raw accumulator's
\* count n[c] is at least the count n[c] of every cropped accumulator and of
\* the second-order accumulator; so whenever any accumulator meets the
\* class-0 gate of max_test, the raw accumulator (index 0) meets it too.
C22_RawCountsDominate ==
    /\ \A k \in Tests : \A c \in Classes : Raw.n[c] >= ttest_ctxs[k].n[c]
    /\ (\E k \in Tests : meets_gate(ttest_ctxs[k])) => meets_gate(Raw)

\* a cropped accumulator and the second-order accumulator both hold samples,
\* fewer than the raw one, and some accumulator other than the raw one
\* meets the gate
C22_Witness ==
    /\ \E k \in Tests \ {0} : meets_gate(ttest_ctxs[k])
    /\ \E k \in 1 .. DUDECT_NUMBER_PERCENTILES : \E c \in Classes :
           /\ ttest_ctxs[k].n[c] > 0
           /\ ttest_ctxs[k].n[c] < Raw.n[c]
    /\ \E c \in Classes :
           /\ ttest_ctxs[1 + DUDECT_NUMBER_PERCENTILES].n[c] > 0
           /\ ttest_ctxs[1 + DUDECT_NUMBER_PERCENTILES].n[c] < Raw.n[c]

\* the delta of slot i, from the timestamps the call read
C23_Delta(i) == meas.ticks[i + 1] - meas.ticks[i]

\* the pushes to the raw test that the deltas of slots i .. N - 2 call for,
\* each under the label prepare wrote for its slot
RECURSIVE C23_RawPushesFrom(_)
C23_RawPushesFrom(i) ==
    IF i > number_measurements - 2 THEN <<>>
    ELSE (IF C23_Delta(i) >= 0 THEN <<<<D(C23_Delta(i)), meas.cls[i]>>>> ELSE <<>>)
         \o C23_RawPushesFrom(i + 1)

\* the slots whose delta update_statistics reads and accepts
C23_Slots ==
    {i \in DISCARD_FIRST .. number_measurements - 2 : C23_Delta(i) >= 0}

\* C23: every delta is attributed to the population of the trial it timed:
\* for each i in [0, N - 1), exec_times[i] = ticks[i + 1] - ticks[i] as
\* measure leaves it, the only call made between the reading of ticks[i] and
\* the reading of ticks[i + 1] is compute on slot i, and each delta
\* update_statistics takes is pushed, to the raw test and to the cropped
\* tests, under classes[i], the label prepare wrote for slot i in the same
\* call (the second-order push carries that label too); the last trial
\* (slot N - 1) contributes no delta and its label is not read.
C23_DeltaAttribution ==
    (meas.pc = "idle" /\ calls > 0) =>
        /\ Len(trace.batch) = number_measurements - 1
        /\ \A i \in 0 .. number_measurements - 2 :
              /\ trace.batch[i + 1] = C23_Delta(i)
              /\ meas.events[2 + 2 * i] = <<"cpucycles", i>>
              /\ meas.events[3 + 2 * i] = <<"compute", i>>
              /\ meas.events[4 + 2 * i] = <<"cpucycles", i + 1>>
        /\ classes = meas.cls
        /\ ~trace.updated => trace.pushes = <<>>
        /\ trace.updated =>
              /\ exec_times = [i \in Slots |->
                                 IF i < number_measurements - 1
                                   THEN C23_Delta(i) ELSE exec_times[i]]
              /\ PushesTo(trace.pushes, 0) = C23_RawPushesFrom(DISCARD_FIRST)
              /\ \A j \in 1 .. Len(trace.pushes) :
                    \E i \in C23_Slots :
                       /\ trace.pushes[j][3] = classes[i]
                       /\ trace.pushes[j][1] <= DUDECT_NUMBER_PERCENTILES
                             => trace.pushes[j][2] = D(exec_times[i])

\* a call that updated the statistics from the delta of slot 1, whose label
\* and delta differ from those of both neighbouring slots
C23_Witness ==
    /\ meas.pc = "idle"
    /\ trace.updated
    /\ Len(PushesTo(trace.pushes, 0)) = 1
    /\ Len(trace.pushes) > 1
    /\ classes[1] # classes[0]
    /\ classes[1] # classes[2]
    /\ C23_Delta(1) # C23_Delta(0)

\* the last call met the assumptions of C24: a calibration stored a non-zero
\* last threshold, an update read a batch with a non-negative delta at an
\* index that is not discarded
C24_CalibratedNonZero ==
    trace.calibrated => percentiles[DUDECT_NUMBER_PERCENTILES - 1] # 0

C24_BatchAccepted ==
    trace.updated =>
        \E i \in DISCARD_FIRST .. number_measurements - 2 : trace.batch[i + 1] >= 0

C24_Assumed == C24_CalibratedNonZero /\ C24_BatchAccepted

\* the inner loop has ended: dudect_main returned a verdict
C24_LoopEnded ==
    driver.pc = "while" /\ driver.state # DUDECT_NOT_ENOUGHT_MEASUREMENTS

\* C24: the inner loop of the driver (dudect_main repeated while it returns
\* not-enough-measurements) terminates: if the calibration of the first
\* batch stores a non-zero last threshold and every later batch holds a
\* non-negative delta at an index past the discarded ones, then after
\* finitely many calls dudect_main returns another verdict.
C24_InnerLoopTerminates == []C24_Assumed => <>C24_LoopEnded

\* the verdict came with the call that took the raw test to the gate: one
\* calibrating call and DUDECT_ENOUGH_MEASUREMENTS updating calls
C24_Witness ==
    /\ C24_LoopEnded
    /\ C24_Assumed
    /\ driver.mains = 1 + DUDECT_ENOUGH_MEASUREMENTS

\* C24, second half: without the assumptions the loop can run forever.
\* This formula, which drops them, does not hold of SpecL: the loop stays
\* in the while on batches that calibrate the last threshold to 0, and on
\* batches whose deltas are all negative.
C24_TerminatesUnconditionally == <>C24_LoopEnded

====
